---- MODULE Spec2Model ----
(***************************************************************************)
(* A model of QPIP (a00_qpip), the QGIS plugin that checks the Python      *)
(* requirements of other plugins, offers to install or uninstall them      *)
(* with pip into <settings dir>/python/dependencies, and defers the        *)
(* loading of plugins until that check is done.                            *)
(*                                                                         *)
(* Four specifications are given over the same variables:                  *)
(*   SpecDeps  check_deps as a function of the requirement files, the      *)
(*             installed distributions, sys.path and the plugin lists;     *)
(*   Spec      the plugin's life after construction: patched_load_plugin,  *)
(*             initComplete, check, the dialog, run_cmd and the start      *)
(*             loop, one step per place where the host regains control;    *)
(*   SpecLife  construction and unload: sys.path, os.environ and the       *)
(*             monkey patch of qgis.utils.loadPlugin;                      *)
(*   SpecDialog  the open dialog: filter, "ignore all", "default all" and  *)
(*             the action combos.                                          *)
(***************************************************************************)
EXTENDS Integers, Sequences, FiniteSets, TLC

VARIABLES
    reqfiles,          \* plugin -> its requirements.txt (a sequence of lines) or NoFile
    dists,             \* sys.path entry -> project key -> installed version (0: none)
    sys_path,          \* sys.path, a sequence of entries
    dirExists,         \* whether prefix_path exists on disk
    settings,          \* the QPIP settings group: key -> "unset" | "yes" | "no"
    visible,           \* iface.mainWindow().isVisible()
    signalled,         \* initializationCompleted has been emitted
    active_plugins,    \* qgis.utils.active_plugins
    defered_packages,  \* Plugin._defered_packages
    pc,                \* where the running handler stands ("idle": none runs)
    run,               \* what the running handler has done so far
    dialog,            \* the MainDialog built by the last check_deps, or NoDialog
    loop,              \* start_packages: the list iterated and the next index
    proc,              \* run_cmd: the command, the process and the progress dialog
    environ,           \* os.environ: PYTHONPATH and PATH
    loadPlugin,        \* qgis.utils.loadPlugin: the function the host calls
    original_loadPlugin, \* Plugin._original_loadPlugin
    before,            \* sys.path, os.environ and loadPlugin before construction
    last               \* the functions the host's last call ran, what it raised

\* What construction and unload work on.
life == <<environ, loadPlugin, original_loadPlugin, before, last>>

vars == <<reqfiles, dists, sys_path, dirExists, settings, visible, signalled,
          active_plugins, defered_packages, pc, run, dialog, loop, proc,
          environ, loadPlugin, original_loadPlugin, before, last>>

----------------------------------------------------------------------------
(* Bounds *)

MaxReqLines == 2
MaxDeferred == 2
MaxEnvParts == 4

----------------------------------------------------------------------------
(* Sequence helpers *)

Range(s) == {s[i] : i \in 1..Len(s)}

RECURSIVE SelectSeqBy(_, _)
SelectSeqBy(s, S) ==
    IF s = <<>> THEN <<>>
    ELSE IF Head(s) \in S THEN <<Head(s)>> \o SelectSeqBy(Tail(s), S)
         ELSE SelectSeqBy(Tail(s), S)

SeqsUpTo(S, n) == UNION {[1..k -> S] : k \in 0..n}

----------------------------------------------------------------------------
(* The world: plugins, projects, versions, path entries *)

Plugins == {"plugin_a", "plugin_b", "plugin_c"}

\* Project keys (pkg_resources' lower-cased names) and the versions on offer.
Keys == <<"cowsay", "pyyaml">>
KeySet == {Keys[i] : i \in 1..Len(Keys)}
Versions == {4, 5}

\* The two places distributions are found in: the plugin's own directory and
\* the interpreter's site-packages.
DepsDir == "dependencies"
GlobalDir == "site-packages"
Entries == {DepsDir, GlobalDir}

\* A plugin directory without a requirements.txt, and one with the given lines.
NoFile == [present |-> FALSE, lines |-> <<>>]
File(lines) == [present |-> TRUE, lines |-> lines]

\* Lib.installed_dist = None.
NoDist == [version |-> 0, path |-> "none"]

\* A line of a requirements.txt, as pkg_resources.parse_requirements yields it.
Requirement(name, op, ver) == [name |-> name, op |-> op, ver |-> ver]

\* Requirement.key: the project name, lower-cased.
ReqKey(r) == IF r.name = "PyYAML" THEN "pyyaml" ELSE r.name

\* str(requirement), e.g. "cowsay==4".
ReqStr(r) == <<r.name, r.op, r.ver>>

\* pkg_resources.Requirement.parse of such a string.
ParseReq(s) == Requirement(s[1], s[2], s[3])

\* dist.metadata["Name"]: the name the project declares.
DistName(key) == IF key = "pyyaml" THEN "PyYAML" ELSE key

\* Whether an installed version meets a requirement's specifier.
Satisfies(v, r) ==
    CASE r.op = "==" -> v = r.ver
      [] r.op = ">=" -> v >= r.ver

----------------------------------------------------------------------------
(* Plugin.__init__: the paths *)

prefix_path == DepsDir
site_packages_path == prefix_path

\* sys.path after construction, given sys.path before it.
InitSysPath(path) ==
    IF site_packages_path \notin Range(path)
    THEN <<site_packages_path>> \o path
    ELSE path

bin_path == "dependencies/bin"

\* A PATH entry that is not bin_path but has bin_path as a substring.
BinLike == "dependencies/bin-old"

\* The host's own loader, and the program's replacement of it.
HostLoader == "qgis.utils.loadPlugin"
Patched == "Plugin.patched_load_plugin"

\* An environment variable: unset, or a string. A string is the sequence of
\* the parts os.pathsep separates; the empty string is <<>>.
Unset == [set |-> FALSE, value |-> <<>>]
Str(value) == [set |-> TRUE, value |-> value]

\* a + os.pathsep + s
Prepend(a, s) == IF s = <<>> THEN <<a, "">> ELSE <<a>> \o s

\* s.replace(a + os.pathsep, ""): every part equal to a that a separator
\* follows goes, with that separator.
RECURSIVE StripParts(_, _)
StripParts(s, a) ==
    IF Len(s) <= 1 THEN s
    ELSE IF Head(s) = a THEN StripParts(Tail(s), a)
    ELSE <<Head(s)>> \o StripParts(Tail(s), a)

Replace(s, a) ==
    LET r == StripParts(s, a) IN IF r = <<"">> THEN <<>> ELSE r

\* a in s, for strings: a is a substring of some part.
Contains(s, a) ==
    \E i \in 1..Len(s) : s[i] = a \/ (a = bin_path /\ s[i] = BinLike)

\* list.remove(a): the first occurrence goes.
RECURSIVE Remove(_, _)
Remove(l, a) ==
    IF l = <<>> THEN <<>>
    ELSE IF Head(l) = a THEN Tail(l)
    ELSE <<Head(l)>> \o Remove(Tail(l), a)

\* os.environ after construction, given sys.path and os.environ before it.
InitEnviron(path, env) ==
    [PYTHONPATH |->
        IF site_packages_path \notin Range(path)
        THEN Str(Prepend(site_packages_path,
                         IF env.PYTHONPATH.set THEN env.PYTHONPATH.value ELSE <<>>))
        ELSE env.PYTHONPATH,
     PATH |->
        IF ~Contains(env.PATH, bin_path)
        THEN Prepend(bin_path, env.PATH)
        ELSE env.PATH]

MutMonkeyPatch(current) ==
    [original_loadPlugin |-> Patched, loadPlugin |-> Patched]

\* The monkey patch: _original_loadPlugin takes the function installed in
\* qgis.utils, then patched_load_plugin is installed there.
MonkeyPatch(current) ==
    [original_loadPlugin |-> current, loadPlugin |-> Patched]

\* No call made by the host yet.
NoCall == [called |-> <<>>, raised |-> "None"]

\* The state Plugin.__init__ leaves, given the state b it found.
Constructed(b) ==
    /\ before = b
    /\ sys_path = InitSysPath(b.sys_path)
    /\ environ = InitEnviron(b.sys_path, b.environ)
    /\ original_loadPlugin = MonkeyPatch(b.loadPlugin).original_loadPlugin
    /\ loadPlugin = MonkeyPatch(b.loadPlugin).loadPlugin
    /\ last = NoCall

\* The process a host is started in: PYTHONPATH is unset, or names the
\* dependencies directory where sys.path does.
HostBefore(path) ==
    [sys_path |-> path,
     environ |-> [PYTHONPATH |-> IF DepsDir \in Range(path)
                                 THEN Str(<<DepsDir>>) ELSE Unset,
                  PATH |-> <<"usr/bin">>],
     loadPlugin |-> HostLoader]

----------------------------------------------------------------------------
(* Settings *)

MutSettingValue(key, default) == settings[key]

\* QgsSettings.value(key, default).
SettingValue(key, default) ==
    IF settings[key] = "unset" THEN default ELSE settings[key]

check_on_startup == SettingValue("check_on_startup", "no") = "yes"
check_on_install == SettingValue("check_on_install", "yes") = "yes"

----------------------------------------------------------------------------
(* check_deps *)

Req(plugin, requirement, error) ==
    [plugin |-> plugin, requirement |-> requirement, error |-> error]

Lib(name) ==
    [name |-> name, required_by |-> <<>>, installed_dist |-> NoDist, qpip |-> TRUE]

\* importlib.metadata.distributions(): every distribution of every sys.path
\* entry, in sys.path order.
RECURSIVE DistsOfEntry(_, _)
DistsOfEntry(entry, keys) ==
    IF keys = <<>> THEN <<>>
    ELSE (IF dists[entry][Head(keys)] # 0
          THEN <<[name |-> DistName(Head(keys)),
                  version |-> dists[entry][Head(keys)],
                  path |-> entry]>>
          ELSE <<>>) \o DistsOfEntry(entry, Tail(keys))

RECURSIVE Distributions(_)
Distributions(path) ==
    IF path = <<>> THEN <<>>
    ELSE DistsOfEntry(Head(path), Keys) \o Distributions(Tail(path))

\* libs is a defaultdict(Lib): a dict in insertion order, here a sequence of
\* Lib records with distinct names.
LibIndex(libs, name) ==
    IF \E i \in 1..Len(libs) : libs[i].name = name
    THEN CHOOSE i \in 1..Len(libs) : libs[i].name = name
    ELSE 0

\* libs[name], created on first access.
Touch(libs, name) ==
    IF LibIndex(libs, name) = 0 THEN Append(libs, Lib(name)) ELSE libs

\* The loop over the installed distributions.
RECURSIVE LoadInstalled(_, _)
LoadInstalled(libs, ds) ==
    IF ds = <<>> THEN libs
    ELSE LET d == Head(ds)
             l1 == Touch(libs, d.name)
             i == LibIndex(l1, d.name)
             l2 == [l1 EXCEPT ![i].installed_dist = [version |-> d.version, path |-> d.path],
                              ![i].qpip = IF d.path # site_packages_path
                                          THEN FALSE ELSE l1[i].qpip]
         IN LoadInstalled(l2, Tail(ds))

\* pkg_resources.WorkingSet(): the first distribution of a project on
\* sys.path is the one that counts.
RECURSIVE WorkingSetVersion(_, _)
WorkingSetVersion(path, key) ==
    IF path = <<>> THEN 0
    ELSE IF dists[Head(path)][key] # 0 THEN dists[Head(path)][key]
         ELSE WorkingSetVersion(Tail(path), key)

MutRequire(s) ==
    LET r == ParseReq(s)
        v == WorkingSetVersion(sys_path, ReqKey(r))
    IN IF v = 0 THEN "DistributionNotFound" ELSE "None"

\* working_set.require(str(requirement)): the error raised, or "None".
Require(s) ==
    LET r == ParseReq(s)
        v == WorkingSetVersion(sys_path, ReqKey(r))
    IN IF v = 0 THEN "DistributionNotFound"
       ELSE IF ~Satisfies(v, r) THEN "VersionConflict"
       ELSE "None"


\* The loop over the requirements of one plugin.
RECURSIVE ScanRequirements(_, _, _)
ScanRequirements(st, plugin_name, lines) ==
    IF lines = <<>> THEN st
    ELSE LET requirement == Head(lines)
             error == Require(ReqStr(requirement))
             req == Req(plugin_name, ReqStr(requirement), error)
             l1 == Touch(st.libs, ReqKey(requirement))
             i == LibIndex(l1, ReqKey(requirement))
             l2 == [l1 EXCEPT ![i].required_by = Append(l1[i].required_by, req)]
         IN ScanRequirements(
                [libs |-> l2, needs_gui |-> st.needs_gui \/ error # "None"],
                plugin_name, Tail(lines))

MutScanPlugin(st, plugin_name) ==
    IF reqfiles[plugin_name].present /\ reqfiles[plugin_name].lines # <<>>
    THEN ScanRequirements(st, plugin_name, SubSeq(reqfiles[plugin_name].lines, 1, 1))
    ELSE st

\* One plugin: its requirements.txt is read if it is a file.
ScanPlugin(st, plugin_name) ==
    IF reqfiles[plugin_name].present
    THEN ScanRequirements(st, plugin_name, reqfiles[plugin_name].lines)
    ELSE st

\* The loop over the plugins.
RECURSIVE ScanPlugins(_, _)
ScanPlugins(st, plugin_names) ==
    IF plugin_names = <<>> THEN st
    ELSE ScanPlugins(ScanPlugin(st, Head(plugin_names)), Tail(plugin_names))

----------------------------------------------------------------------------
(* MainDialog *)

DoNothing == <<"nothing", "">>

\* The items of a library's action combo: "Do nothing", one install per
\* requirement, and an uninstall if a distribution is installed.
RECURSIVE InstallItems(_)
InstallItems(reqs) ==
    IF reqs = <<>> THEN <<>>
    ELSE <<<<"install", Head(reqs).requirement>>>> \o InstallItems(Tail(reqs))

ComboItems(lib) ==
    <<DoNothing>> \o InstallItems(lib.required_by)
        \o (IF lib.installed_dist # NoDist THEN <<<<"uninstall", lib.name>>>> ELSE <<>>)

\* _default_all: the index preselected for one library.
MutDefaultIndex(lib) ==
    IF /\ lib.qpip
       /\ Len(lib.required_by) = 1
       /\ lib.required_by[1].error = "None"
       /\ lib.installed_dist = NoDist
    THEN 1 ELSE 0

DefaultIndex(lib) ==
    IF /\ lib.qpip
       /\ Len(lib.required_by) = 1
       /\ lib.required_by[1].error # "None"
       /\ lib.installed_dist = NoDist
    THEN 1 ELSE 0

\* Whether a requirement of the library is missing or conflicting.
HasIssue(lib) ==
    \E j \in 1..Len(lib.required_by) : lib.required_by[j].error # "None"

MutHideRow(lib, action_index, filter_index) ==
    CASE filter_index = 0 -> ~HasIssue(lib)
      [] filter_index = 1 -> lib.required_by = <<>>
      [] filter_index = 2 -> ~lib.qpip
      [] OTHER -> FALSE

\* _filter for one row: whether the row is hidden.
HideRow(lib, action_index, filter_index) ==
    IF action_index # 0 THEN FALSE
    ELSE CASE filter_index = 0 -> ~HasIssue(lib)
           [] filter_index = 1 -> lib.required_by = <<>>
           [] filter_index = 2 -> ~lib.qpip
           [] OTHER -> FALSE

\* _filter: every row is shown or hidden anew.
Filter(d) ==
    [d EXCEPT !.hidden = [i \in 1..Len(d.libs) |->
                            HideRow(d.libs[i], d.index[i], d.filter_index)]]

\* _ignore_all and _default_all: the action combos are set, the rows are
\* left as they are.
IgnoreAll(d) == [d EXCEPT !.index = [i \in 1..Len(d.libs) |-> 0]]
MutDefaultAll(d) ==
    [d EXCEPT !.index = [i \in 1..Len(d.libs) |->
                            IF DefaultIndex(d.libs[i]) = 1 THEN 1 ELSE d.index[i]]]

DefaultAll(d) == [d EXCEPT !.index = [i \in 1..Len(d.libs) |-> DefaultIndex(d.libs[i])]]

\* MainDialog.__init__ as far as the check boxes, the action combos, the
\* filter combo and the rows go.
MainDialog(libs, startup, install) ==
    Filter(DefaultAll(
        [libs |-> libs,
         items |-> [i \in 1..Len(libs) |-> ComboItems(libs[i])],
         index |-> [i \in 1..Len(libs) |-> 0],
         startup_checkbox |-> startup,
         install_checkbox |-> install,
         filter_index |-> 1,
         hidden |-> [i \in 1..Len(libs) |-> FALSE]]))

\* _selected_actions: the data of the current items of the given type, in
\* the order of the rows.
RECURSIVE SelectedFrom(_, _, _)
SelectedFrom(d, action_type, i) ==
    IF i > Len(d.libs) THEN <<>>
    ELSE LET data == d.items[i][d.index[i] + 1]
         IN (IF data[1] = action_type THEN <<data[2]>> ELSE <<>>)
                \o SelectedFrom(d, action_type, i + 1)

selected_actions(d, action_type) == SelectedFrom(d, action_type, 1)

reqs_to_install(d) == selected_actions(d, "install")
reqs_to_uninstall(d) == selected_actions(d, "uninstall")

\* check_deps: the dialog (not opened) and whether it needs to be opened.
check_deps(additional_plugins) ==
    LET plugin_names == active_plugins \o additional_plugins
        installed == LoadInstalled(<<>>, Distributions(sys_path))
        st == ScanPlugins([libs |-> installed, needs_gui |-> FALSE], plugin_names)
    IN [dialog |-> MainDialog(st.libs, check_on_startup, check_on_install),
        needs_gui |-> st.needs_gui,
        plugin_names |-> plugin_names]

----------------------------------------------------------------------------
(* What a handler has done: the observations the properties are stated on *)

NoRun ==
    [handler |-> "none",        \* "load" | "initComplete" | "check" | "check_deps"
     pkg |-> "",                \* patched_load_plugin's packageName
     branch |-> "",             \* the branch patched_load_plugin took
     wasVisible |-> FALSE,      \* _is_qgis_loaded() at entry
     wasStartup |-> FALSE,      \* _check_on_startup() at entry
     wasInstall |-> FALSE,      \* _check_on_install() at entry
     settingsBefore |-> [check_on_startup |-> "unset", check_on_install |-> "unset"],
     deferredBefore |-> <<>>,   \* _defered_packages at entry
     checks |-> <<>>,           \* the additional_plugins of each check_deps call
     plugin_names |-> <<>>,     \* the plugins the last check_deps scanned
     needs_gui |-> FALSE,       \* the flag the last check_deps returned
     dialogs |-> 0,             \* dialog.exec_() calls
     result |-> "none",         \* "accepted" | "rejected"
     saved |-> 0,               \* save_settings calls
     loads |-> <<>>,            \* the original loader's calls, in order
     results |-> <<>>,          \* what the original loader returned, per call
     starts |-> <<>>,           \* qgis.utils.startPlugin's calls, in order
     start_results |-> <<>>,    \* what startPlugin returned, per call
     enabled |-> <<>>,          \* packages whose /PythonPlugins/ setting was set
                                \* and whose watchDog entry was removed
     batch |-> <<>>,            \* the list start_packages went through
     cmds |-> <<>>,             \* the commands run_cmd has finished
     ret |-> "none"]            \* patched_load_plugin's return value

\* No dialog built, no start loop running, no command running.
NoDialog == MainDialog(<<>>, FALSE, FALSE)
NoLoop == [list |-> <<>>, i |-> 1, own |-> FALSE]
NoProc ==
    [state |-> "none", canceled |-> FALSE, killed |-> FALSE, rc |-> 0,
     report |-> "none", verb |-> "none", reqs |-> <<>>, target |-> "none",
     had |-> {}]

----------------------------------------------------------------------------
(* SpecDeps: check_deps over bounded inputs *)

Lines ==
    {Requirement("cowsay", "==", 4), Requirement("cowsay", "==", 5),
     Requirement("PyYAML", ">=", 5)}

FilesA == {NoFile} \cup {File(l) : l \in SeqsUpTo(Lines, MaxReqLines)}
FilesB == {NoFile, File(<<Requirement("cowsay", "==", 5)>>),
           File(<<Requirement("PyYAML", ">=", 4)>>)}

\* sys.path before construction: the interpreter's own, or one that already
\* names the dependencies directory (PYTHONPATH inherited from a parent).
PathsBefore == {<<GlobalDir>>, <<GlobalDir, DepsDir>>}

ActiveChoices == {<<>>, <<"plugin_b">>, <<"plugin_c", "plugin_b">>, <<"plugin_a">>}
AdditionalChoices == {<<>>, <<"plugin_a">>, <<"plugin_a", "plugin_b">>, <<"plugin_c">>}

Quiet ==
    /\ dirExists = FALSE
    /\ settings = [check_on_startup |-> "unset", check_on_install |-> "unset"]
    /\ visible = FALSE
    /\ signalled = FALSE
    /\ defered_packages = <<>>
    /\ pc = "idle"
    /\ run = NoRun
    /\ dialog = NoDialog
    /\ loop = NoLoop
    /\ proc = NoProc

InitDeps ==
    /\ \E fa \in FilesA, fb \in FilesB :
          reqfiles = [p \in Plugins |->
                        IF p = "plugin_a" THEN fa
                        ELSE IF p = "plugin_b" THEN fb ELSE NoFile]
    /\ \E dd \in [KeySet -> {0} \cup Versions], dg \in [KeySet -> {0, 5}] :
          dists = [e \in Entries |-> IF e = DepsDir THEN dd ELSE dg]
    /\ \E path \in PathsBefore : Constructed(HostBefore(path))
    /\ active_plugins \in ActiveChoices
    /\ Quiet

\* A call of check_deps; nothing but the returned pair is new.
CheckDepsCall(additional_plugins) ==
    LET r == check_deps(additional_plugins)
    IN /\ run.handler = "none"
       /\ dialog' = r.dialog
       /\ run' = [NoRun EXCEPT !.handler = "check_deps",
                               !.checks = <<additional_plugins>>,
                               !.plugin_names = r.plugin_names,
                               !.needs_gui = r.needs_gui]
       /\ UNCHANGED <<reqfiles, dists, sys_path, dirExists, settings, visible,
                      signalled, active_plugins, defered_packages, pc, loop, proc>>
       /\ UNCHANGED life

NextDeps == \E additional \in AdditionalChoices : CheckDepsCall(additional)

SpecDeps == InitDeps /\ [][NextDeps]_vars

----------------------------------------------------------------------------
(* Spec: the plugin after construction *)

\* The plugin directories of the running host: plugin_a requires cowsay==4,
\* plugin_b requires cowsay==5, plugin_c has no requirements.txt.
MainFiles ==
    [p \in Plugins |->
        IF p = "plugin_a" THEN File(<<Requirement("cowsay", "==", 4)>>)
        ELSE IF p = "plugin_b" THEN File(<<Requirement("cowsay", "==", 5)>>)
        ELSE NoFile]

\* The packages the host asks to load.
Loadable == {"plugin_a", "plugin_c"}

\* save_settings: the values written from the dialog's check boxes.
save_settings(d) ==
    [check_on_startup |-> IF d.startup_checkbox THEN "yes" ELSE "no",
     check_on_install |-> IF d.install_checkbox THEN "yes" ELSE "no"]

MutBranch(is_qgis_loaded, startup, install) ==
    IF ~is_qgis_loaded
    THEN (IF startup THEN "passthrough" ELSE "defer")
    ELSE (IF ~install THEN "passthrough" ELSE "check")

\* patched_load_plugin: which of its branches runs.
Branch(is_qgis_loaded, startup, install) ==
    IF ~is_qgis_loaded
    THEN (IF ~startup THEN "passthrough" ELSE "defer")
    ELSE (IF ~install THEN "passthrough" ELSE "check")

\* A handler is entered.
Enter(handler, pkg) ==
    [NoRun EXCEPT !.handler = handler,
                  !.pkg = pkg,
                  !.wasVisible = visible,
                  !.wasStartup = check_on_startup,
                  !.wasInstall = check_on_install,
                  !.settingsBefore = settings,
                  !.deferredBefore = defered_packages]

MutRunGui(handler, needs_gui) == FALSE

\* Whether the dialog is opened after check_deps: check always opens it,
\* initComplete and patched_load_plugin only when check_deps asks for it.
run_gui(handler, needs_gui) ==
    IF handler = "check" THEN TRUE ELSE needs_gui

MutPromptOutcome(accepted, d) ==
    [uninstall |-> reqs_to_uninstall(d), install |-> reqs_to_install(d)]

\* promt_install: what is handed to pip once dialog.exec_() has returned.
PromptOutcome(accepted, d) ==
    IF accepted
    THEN [uninstall |-> reqs_to_uninstall(d), install |-> reqs_to_install(d)]
    ELSE [uninstall |-> <<>>, install |-> <<>>]

\* pip_uninstall_reqs and pip_install_reqs: the command lines.
pip_uninstall_reqs(reqs) ==
    [verb |-> "uninstall", reqs |-> reqs, target |-> "none"]

MutPipInstallReqs(reqs) ==
    [verb |-> "install", reqs |-> reqs, target |-> "none"]

pip_install_reqs(reqs) ==
    [verb |-> "install", reqs |-> reqs, target |-> prefix_path]

\* Popen(args): the process runs; the target's content is remembered.
Popen(args, ds) ==
    [state |-> "running", canceled |-> FALSE, killed |-> FALSE, rc |-> 0,
     report |-> "none", verb |-> args.verb, reqs |-> args.reqs, target |-> args.target,
     had |-> {k \in KeySet : ds[DepsDir][k] # 0}]

\* One turn of run_cmd's loop: processEvents (Abort may be pressed),
\* communicate (the process may end within the timeout), kill if the
\* progress dialog was cancelled, poll. A killed process may not be reaped
\* by that poll yet; the next communicate collects it.
LoopBody(p, abort, outcome, reaped) ==
    LET canceled1 == p.canceled \/ abort
        comm == IF p.state = "dying" THEN [p EXCEPT !.state = "exited", !.rc = -9]
                ELSE IF outcome = "timeout" THEN p
                ELSE [p EXCEPT !.state = "exited",
                               !.rc = IF outcome = "rc0" THEN 0 ELSE 1]
        kill == IF canceled1 /\ comm.state = "running"
                THEN [comm EXCEPT !.state = "dying", !.killed = TRUE]
                ELSE comm
        poll == IF kill.state = "dying" /\ reaped
                THEN [kill EXCEPT !.state = "exited", !.rc = -9]
                ELSE kill
    IN [poll EXCEPT !.canceled = canceled1]

MutReport(returncode) ==
    IF returncode > 0 THEN "failed" ELSE "success"

\* run_cmd after the loop: the warning dialog or the success message.
Report(returncode) ==
    IF returncode # 0 THEN "failed" ELSE "success"

\* What a successful pip leaves on disk. install --target puts the newest
\* version meeting each requirement into the target; a project already
\* there is replaced or kept as it is (pip's choice, replace). uninstall
\* removes the first distribution of each project on sys.path.
BestVersion(r) ==
    CHOOSE v \in Versions :
        /\ Satisfies(v, r)
        /\ \A w \in Versions : Satisfies(w, r) => w <= v

KeyOfName(name) == CHOOSE k \in KeySet : DistName(k) = name \/ k = name

RECURSIVE PipInstall(_, _, _)
PipInstall(ds, reqs, replace) ==
    IF reqs = <<>> THEN ds
    ELSE LET r == ParseReq(Head(reqs))
             k == ReqKey(r)
         IN PipInstall(
                IF ds[DepsDir][k] # 0 /\ ~replace THEN ds
                ELSE [ds EXCEPT ![DepsDir][k] = BestVersion(r)],
                Tail(reqs), replace)

RECURSIVE FirstEntryWith(_, _, _)
FirstEntryWith(ds, path, k) ==
    IF path = <<>> THEN "none"
    ELSE IF ds[Head(path)][k] # 0 THEN Head(path)
         ELSE FirstEntryWith(ds, Tail(path), k)

RECURSIVE PipUninstall(_, _)
PipUninstall(ds, names) ==
    IF names = <<>> THEN ds
    ELSE LET k == KeyOfName(Head(names))
             e == FirstEntryWith(ds, sys_path, k)
         IN PipUninstall(IF e = "none" THEN ds ELSE [ds EXCEPT ![e][k] = 0],
                         Tail(names))

PipEffect(p, replace) ==
    IF p.rc # 0 THEN dists
    ELSE IF p.verb = "install" THEN PipInstall(dists, p.reqs, replace)
    ELSE PipUninstall(dists, p.reqs)

MutPackageNames(lp, deferred) ==
    IF lp.own THEN lp.list ELSE SubSeq(deferred, 1, 1)

\* The list start_packages iterates: the list object its caller passed, which
\* for initComplete is self._defered_packages itself, as it is now.
PackageNames(lp, deferred) ==
    IF lp.own THEN lp.list ELSE deferred

MutStartStep(r, packageName, could_load, could_start) ==
    [r EXCEPT
        !.loads = Append(@, packageName),
        !.results = Append(@, could_load),
        !.starts = Append(@, packageName),
        !.start_results = Append(@, could_start),
        !.enabled = IF could_start THEN Append(@, packageName) ELSE @]

\* The body of start_packages' loop for one package: the original loader,
\* startPlugin if it loaded, the /PythonPlugins/ setting and the removal of
\* the watchDog entry if it started.
StartStep(r, packageName, could_load, could_start) ==
    [r EXCEPT
        !.loads = Append(@, packageName),
        !.results = Append(@, could_load),
        !.starts = IF could_load THEN Append(@, packageName) ELSE @,
        !.start_results = IF could_load THEN Append(@, could_start) ELSE @,
        !.enabled = IF could_load /\ could_start THEN Append(@, packageName) ELSE @]

\* The selections a user can leave the dialog with: one item per row.
Selections(d) ==
    {f \in [1..Len(d.libs) -> 0..(Len(Keys) + 2)] :
        \A i \in 1..Len(d.libs) : f[i] < Len(d.items[i])}

\* The state after construction. The plugin is constructed while the host
\* starts (window hidden, no plugin active yet: a00_qpip loads first) or is
\* enabled in a running host (window shown, initializationCompleted long
\* emitted). The dependencies directory is absent, or holds cowsay 5 and
\* PyYAML 5 from an earlier session; where sys.path named the directory
\* before construction, the interpreter's site-packages holds cowsay 5.
Init ==
    /\ reqfiles = MainFiles
    /\ \E vd \in {0, 5}, vg \in {0, 5}, path \in PathsBefore :
          /\ dists = [e \in Entries |->
                        [k \in KeySet |->
                            IF k = "cowsay" THEN (IF e = DepsDir THEN vd ELSE vg)
                            ELSE (IF e = DepsDir THEN vd ELSE 0)]]
          /\ dirExists = (vd # 0)
          /\ Constructed(HostBefore(path))
          /\ IF DepsDir \in Range(path) THEN vd = 0 /\ vg = 5 ELSE vg = 0
    /\ settings \in
          {[check_on_startup |-> "unset", check_on_install |-> "unset"],
           [check_on_startup |-> "yes", check_on_install |-> "yes"]}
    /\ \/ visible = FALSE /\ signalled = FALSE
       \/ visible = TRUE /\ signalled = TRUE
    /\ active_plugins = <<>>
    /\ defered_packages = <<>>
    /\ pc = "idle"
    /\ run = NoRun
    /\ dialog = NoDialog
    /\ loop = NoLoop
    /\ proc = NoProc

\* save_settings, then what follows it in the handler: start_packages, or
\* the end of check.
AfterPrompt(r, d) ==
    /\ settings' = save_settings(d)
    /\ dialog' = NoDialog
    /\ proc' = NoProc
    /\ run' = [r EXCEPT !.saved = @ + 1]
    /\ UNCHANGED defered_packages
    /\ IF r.handler = "check"
       THEN pc' = "return" /\ loop' = NoLoop
       ELSE /\ pc' = "start"
            /\ loop' = IF r.handler = "load"
                       THEN [list |-> <<r.pkg>>, i |-> 1, own |-> TRUE]
                       ELSE [list |-> <<>>, i |-> 1, own |-> FALSE]

\* run_cmd is entered with a command.
StartCmd(r, d, args, ds) ==
    /\ pc' = "run_cmd"
    /\ proc' = Popen(args, ds)
    /\ run' = r
    /\ dialog' = d
    /\ UNCHANGED <<settings, loop, defered_packages>>

\* promt_install from the return of dialog.exec_() on.
Prompted(r, d, accepted) ==
    LET r1 == [r EXCEPT !.result = IF accepted THEN "accepted" ELSE "rejected"]
        todo == PromptOutcome(accepted, d)
    IN IF todo.uninstall # <<>>
       THEN StartCmd(r1, d, pip_uninstall_reqs(todo.uninstall), dists)
                /\ UNCHANGED dirExists
       ELSE IF todo.install # <<>>
       THEN StartCmd(r1, d, pip_install_reqs(todo.install), dists)
                /\ dirExists' = TRUE
       ELSE AfterPrompt(r1, d) /\ UNCHANGED dirExists

\* check_deps and the statements after it, up to the first wait.
AfterCheck(r, additional_plugins) ==
    LET c == check_deps(additional_plugins)
        r1 == [r EXCEPT !.checks = Append(@, additional_plugins),
                        !.plugin_names = c.plugin_names,
                        !.needs_gui = c.needs_gui]
    IN IF run_gui(r.handler, c.needs_gui)
       THEN /\ pc' = "dialog"
            /\ dialog' = c.dialog
            /\ run' = [r1 EXCEPT !.dialogs = @ + 1]
            /\ UNCHANGED <<settings, loop, defered_packages, proc, dirExists>>
       ELSE AfterPrompt(r1, c.dialog) /\ UNCHANGED dirExists

\* The main window is shown.
Show ==
    /\ pc = "idle"
    /\ ~visible
    /\ visible' = TRUE
    /\ UNCHANGED <<reqfiles, dists, sys_path, dirExists, settings, signalled,
                   active_plugins, defered_packages, pc, run, dialog, loop, proc>>
    /\ UNCHANGED life

\* patched_load_plugin, check disabled: the original loader is called and
\* its result returned. The host (QgsPluginRegistry::loadPythonPlugin) then
\* starts a plugin that loaded.
LoadPassThrough(packageName) ==
    /\ pc = "idle"
    /\ Branch(visible, check_on_startup, check_on_install) = "passthrough"
    /\ \E could_load \in BOOLEAN, could_start \in BOOLEAN :
          /\ could_start => could_load
          /\ run' = [Enter("load", packageName) EXCEPT
                        !.branch = "passthrough",
                        !.loads = <<packageName>>,
                        !.results = <<could_load>>,
                        !.ret = IF could_load THEN "True" ELSE "False"]
          /\ active_plugins' =
                IF could_start /\ packageName \notin Range(active_plugins)
                THEN Append(active_plugins, packageName) ELSE active_plugins
    /\ pc' = "return"
    /\ UNCHANGED <<reqfiles, dists, sys_path, dirExists, settings, visible,
                   signalled, defered_packages, dialog, loop, proc>>
    /\ UNCHANGED life

\* patched_load_plugin during startup with the check enabled: deferred.
LoadDefer(packageName) ==
    /\ pc = "idle"
    /\ Branch(visible, check_on_startup, check_on_install) = "defer"
    /\ Len(defered_packages) < MaxDeferred
    /\ defered_packages' = Append(defered_packages, packageName)
    /\ run' = [Enter("load", packageName) EXCEPT !.branch = "defer", !.ret = "False"]
    /\ pc' = "return"
    /\ UNCHANGED <<reqfiles, dists, sys_path, dirExists, settings, visible,
                   signalled, active_plugins, dialog, loop, proc>>
    /\ UNCHANGED life

\* patched_load_plugin with the GUI ready and the check enabled.
LoadCheck(packageName) ==
    /\ pc = "idle"
    /\ Branch(visible, check_on_startup, check_on_install) = "check"
    /\ AfterCheck([Enter("load", packageName) EXCEPT !.branch = "check"],
                  <<packageName>>)
    /\ UNCHANGED <<reqfiles, dists, sys_path, visible, signalled, active_plugins>>
    /\ UNCHANGED life

patched_load_plugin(packageName) ==
    \/ LoadPassThrough(packageName)
    \/ LoadDefer(packageName)
    \/ LoadCheck(packageName)

\* initComplete, connected to iface.initializationCompleted, which the host
\* emits once.
initComplete ==
    /\ pc = "idle"
    /\ ~signalled
    /\ signalled' = TRUE
    /\ IF defered_packages # <<>>
       THEN AfterCheck(Enter("initComplete", ""), defered_packages)
       ELSE /\ defered_packages' = <<>>
            /\ run' = Enter("initComplete", "")
            /\ pc' = "return"
            /\ UNCHANGED <<settings, dialog, loop, proc, dirExists>>
    /\ UNCHANGED <<reqfiles, dists, sys_path, visible, active_plugins>>
    /\ UNCHANGED life

\* check, the "Run dependencies check now" action.
check ==
    /\ pc = "idle"
    /\ visible
    /\ AfterCheck(Enter("check", ""), <<>>)
    /\ UNCHANGED <<reqfiles, dists, sys_path, visible, signalled, active_plugins>>
    /\ UNCHANGED life

\* dialog.exec_() returns: the user has set the rows and the check boxes and
\* accepted or rejected the dialog.
DialogClose ==
    /\ pc = "dialog"
    /\ \E index \in Selections(dialog), startup \in BOOLEAN, install \in BOOLEAN,
          accepted \in BOOLEAN :
          Prompted(run,
                   [dialog EXCEPT !.index = index,
                                  !.startup_checkbox = startup,
                                  !.install_checkbox = install],
                   accepted)
    /\ UNCHANGED <<reqfiles, dists, sys_path, visible, signalled, active_plugins>>
    /\ UNCHANGED life

\* run_cmd: one turn of the loop. When it breaks, the progress dialog is
\* closed and the outcome reported: a warning dialog waiting for the user,
\* or a message pushed to the message bar. What pip did is on disk by then.
RunCmdTurn ==
    /\ pc = "run_cmd"
    /\ \E abort \in BOOLEAN, outcome \in {"timeout", "rc0", "rc1"},
          reaped \in BOOLEAN, replace \in BOOLEAN :
          LET p == LoopBody(proc, abort, outcome, reaped)
          IN IF p.state # "exited"
             THEN /\ proc' = p
                  /\ UNCHANGED <<dists, pc>>
             ELSE /\ proc' = [p EXCEPT !.report = Report(p.rc)]
                  /\ dists' = PipEffect(p, replace)
                  /\ pc' = "report"
    /\ UNCHANGED <<reqfiles, sys_path, dirExists, settings, visible, signalled,
                   active_plugins, defered_packages, run, dialog, loop>>
    /\ UNCHANGED life

\* run_cmd returns to promt_install, which runs the install command if the
\* one that ended was the uninstall, and returns to the handler otherwise.
RunCmdReturn ==
    /\ pc = "report"
    /\ LET r1 == [run EXCEPT !.cmds = Append(@, [verb |-> proc.verb,
                                                  reqs |-> proc.reqs,
                                                  target |-> proc.target])]
           todo == PromptOutcome(run.result = "accepted", dialog)
       IN IF proc.verb = "uninstall" /\ todo.install # <<>>
          THEN StartCmd(r1, dialog, pip_install_reqs(todo.install), dists)
                   /\ dirExists' = TRUE
          ELSE AfterPrompt(r1, dialog) /\ UNCHANGED dirExists
    /\ UNCHANGED <<reqfiles, dists, sys_path, visible, signalled, active_plugins>>
    /\ UNCHANGED life

\* start_packages: one turn of its loop and, after the last, the end of the
\* handler. While the original loader runs, the host may call
\* qgis.utils.loadPlugin for another package (nested), which is deferred if
\* the window is hidden and the startup check enabled.
StartPackage ==
    /\ pc = "start"
    /\ \E could_load \in BOOLEAN, could_start \in BOOLEAN,
          nested \in {"none"} \cup Loadable :
          LET list == PackageNames(loop, defered_packages)
              packageName == list[loop.i]
              started == could_start /\ packageName \notin Range(active_plugins)
              deferred1 == IF nested = "none" THEN defered_packages
                           ELSE Append(defered_packages, nested)
              list1 == PackageNames(loop, deferred1)
              r1 == StartStep(run, packageName, could_load, started)
          IN /\ could_start => could_load
             /\ nested # "none" =>
                   /\ Branch(visible, check_on_startup, check_on_install) = "defer"
                   /\ Len(defered_packages) < MaxDeferred
             /\ active_plugins' =
                   IF started THEN Append(active_plugins, packageName)
                   ELSE active_plugins
             /\ IF loop.i + 1 <= Len(list1)
                THEN /\ loop' = [loop EXCEPT !.i = @ + 1]
                     /\ defered_packages' = deferred1
                     /\ run' = r1
                     /\ pc' = "start"
                ELSE /\ loop' = NoLoop
                     /\ pc' = "return"
                     /\ IF run.handler = "initComplete"
                        THEN /\ defered_packages' = <<>>
                             /\ run' = [r1 EXCEPT !.batch = list1]
                        ELSE /\ defered_packages' = deferred1
                             /\ run' = [r1 EXCEPT !.batch = list1, !.ret = "True"]
    /\ UNCHANGED <<reqfiles, dists, sys_path, dirExists, settings, visible,
                   signalled, dialog, proc>>
    /\ UNCHANGED life

\* The handler returns to the host.
Return ==
    /\ pc = "return"
    /\ pc' = "idle"
    /\ run' = NoRun
    /\ dialog' = NoDialog
    /\ UNCHANGED <<reqfiles, dists, sys_path, dirExists, settings, visible,
                   signalled, active_plugins, defered_packages, loop, proc>>
    /\ UNCHANGED life

Next ==
    \/ Show
    \/ \E packageName \in Loadable : patched_load_plugin(packageName)
    \/ initComplete
    \/ check
    \/ DialogClose
    \/ RunCmdTurn
    \/ RunCmdReturn
    \/ StartPackage
    \/ Return

Spec == Init /\ [][Next]_vars

----------------------------------------------------------------------------
(* SpecLife: construction, the host's loadPlugin calls during startup, unload *)

\* Another program's replacement of the host's loader, installed earlier.
OtherLoader == "other.loadPlugin"

\* The states a plugin instance is constructed in.
SysPathsBefore == {<<GlobalDir>>, <<GlobalDir, DepsDir>>}
PythonPathsBefore ==
    {Unset, Str(<<>>), Str(<<"usr/lib">>), Str(<<DepsDir, "usr/lib">>)}
PathsOfPATH ==
    {<<"usr/bin">>, <<bin_path, "usr/bin">>, <<"usr/bin", bin_path>>,
     <<BinLike, "usr/bin">>}

InitLife ==
    /\ reqfiles = MainFiles
    /\ dists = [e \in Entries |-> [k \in KeySet |-> 0]]
    /\ dirExists = FALSE
    /\ settings \in
          {[check_on_startup |-> "unset", check_on_install |-> "unset"],
           [check_on_startup |-> "yes", check_on_install |-> "yes"]}
    /\ visible = FALSE
    /\ signalled = FALSE
    /\ active_plugins = <<>>
    /\ defered_packages = <<>>
    /\ pc = "new"
    /\ run = NoRun
    /\ dialog = NoDialog
    /\ loop = NoLoop
    /\ proc = NoProc
    /\ sys_path \in SysPathsBefore
    /\ \E pp \in PythonPathsBefore, path \in PathsOfPATH :
          environ = [PYTHONPATH |-> pp, PATH |-> path]
    /\ loadPlugin \in {HostLoader, OtherLoader}
    /\ original_loadPlugin = "none"
    /\ before = [sys_path |-> sys_path, environ |-> environ, loadPlugin |-> loadPlugin]
    /\ last = NoCall

\* Plugin.__init__ of a new instance: the path alterations and the monkey
\* patch.
Construct ==
    /\ pc \in {"new", "unloaded"}
    /\ Len(environ.PYTHONPATH.value) < MaxEnvParts
    /\ before' = [sys_path |-> sys_path, environ |-> environ, loadPlugin |-> loadPlugin]
    /\ sys_path' = InitSysPath(sys_path)
    /\ environ' = InitEnviron(sys_path, environ)
    /\ original_loadPlugin' = MonkeyPatch(loadPlugin).original_loadPlugin
    /\ loadPlugin' = MonkeyPatch(loadPlugin).loadPlugin
    /\ last' = [called |-> <<"Plugin.__init__">>, raised |-> "None"]
    /\ defered_packages' = <<>>
    /\ pc' = "idle"
    /\ UNCHANGED <<reqfiles, dists, dirExists, settings, visible, signalled,
                   active_plugins, run, dialog, loop, proc>>

\* os.environ after unload's two replace() calls.
UnloadEnviron(env) ==
    [PYTHONPATH |-> Str(Replace(env.PYTHONPATH.value, bin_path)),
     PATH |-> Replace(env.PATH, bin_path)]

\* unload: the monkey patch is removed, then the path alterations;
\* os.environ["PYTHONPATH"] raises KeyError where the variable is unset.
Unload ==
    /\ pc = "idle"
    /\ loadPlugin' = original_loadPlugin
    /\ IF site_packages_path \in Range(sys_path)
       THEN /\ sys_path' = Remove(sys_path, site_packages_path)
            /\ IF environ.PYTHONPATH.set
               THEN /\ environ' = UnloadEnviron(environ)
                    /\ last' = [called |-> <<"Plugin.unload">>, raised |-> "None"]
               ELSE /\ environ' = environ
                    /\ last' = [called |-> <<"Plugin.unload">>, raised |-> "KeyError"]
       ELSE /\ UNCHANGED <<sys_path, environ>>
            /\ last' = [called |-> <<"Plugin.unload">>, raised |-> "None"]
    /\ pc' = "unloaded"
    /\ UNCHANGED <<reqfiles, dists, dirExists, settings, visible, signalled,
                   active_plugins, defered_packages, run, dialog, loop, proc,
                   original_loadPlugin, before>>

\* The host calls qgis.utils.loadPlugin(packageName) while it starts: the
\* function installed there runs; patched_load_plugin passes the call to
\* _original_loadPlugin or defers the package.
HostLoad(packageName) ==
    /\ pc \in {"new", "idle", "unloaded"}
    /\ IF loadPlugin # Patched
       THEN /\ last' = [called |-> <<loadPlugin>>, raised |-> "None"]
            /\ UNCHANGED defered_packages
       ELSE IF Branch(visible, check_on_startup, check_on_install) = "passthrough"
       THEN /\ last' = [called |-> <<loadPlugin, original_loadPlugin>>,
                        raised |-> "None"]
            /\ UNCHANGED defered_packages
       ELSE /\ Len(defered_packages) < MaxDeferred
            /\ defered_packages' = Append(defered_packages, packageName)
            /\ last' = [called |-> <<loadPlugin>>, raised |-> "None"]
    /\ UNCHANGED <<reqfiles, dists, sys_path, dirExists, settings, visible,
                   signalled, active_plugins, pc, run, dialog, loop, proc,
                   environ, loadPlugin, original_loadPlugin, before>>

NextLife ==
    \/ Construct
    \/ Unload
    \/ \E packageName \in Loadable : HostLoad(packageName)

SpecLife == InitLife /\ [][NextLife]_vars

----------------------------------------------------------------------------
(* SpecDialog: the dialog check_deps built, open, and its controls *)

InitDialog ==
    /\ \E fa \in FilesA, fb \in FilesB :
          reqfiles = [p \in Plugins |->
                        IF p = "plugin_a" THEN fa
                        ELSE IF p = "plugin_b" THEN fb ELSE NoFile]
    /\ \E dd \in [KeySet -> {0} \cup Versions], dg \in [KeySet -> {0, 5}] :
          dists = [e \in Entries |-> IF e = DepsDir THEN dd ELSE dg]
    /\ Constructed(HostBefore(<<GlobalDir>>))
    /\ active_plugins \in {<<>>, <<"plugin_b">>}
    /\ dirExists = FALSE
    /\ settings = [check_on_startup |-> "unset", check_on_install |-> "unset"]
    /\ visible = TRUE
    /\ signalled = TRUE
    /\ defered_packages = <<>>
    /\ pc = "dialog"
    /\ run = [Enter("check", "") EXCEPT !.checks = <<(<<"plugin_a">>)>>,
                                        !.dialogs = 1]
    /\ dialog = check_deps(<<"plugin_a">>).dialog
    /\ loop = NoLoop
    /\ proc = NoProc

\* The controls leave everything but the dialog as it is.
OnlyDialog ==
    /\ pc = "dialog"
    /\ UNCHANGED <<reqfiles, dists, sys_path, dirExists, settings, visible,
                   signalled, active_plugins, defered_packages, pc, run, loop,
                   proc>>
    /\ UNCHANGED life

\* filter_combobox.currentIndexChanged: _filter runs.
FilterChanged(filter_index) ==
    /\ filter_index # dialog.filter_index
    /\ dialog' = Filter([dialog EXCEPT !.filter_index = filter_index])
    /\ OnlyDialog

\* ignore_button.pressed and default_button.pressed.
IgnorePressed ==
    /\ dialog' = IgnoreAll(dialog)
    /\ OnlyDialog

DefaultPressed ==
    /\ dialog' = DefaultAll(dialog)
    /\ OnlyDialog

\* The user sets the action combo of a row that is shown.
ActionChosen(i, k) ==
    /\ i \in 1..Len(dialog.libs)
    /\ ~dialog.hidden[i]
    /\ k < Len(dialog.items[i])
    /\ k # dialog.index[i]
    /\ dialog' = [dialog EXCEPT !.index[i] = k]
    /\ OnlyDialog

NextDialog ==
    \/ \E filter_index \in 0..3 : FilterChanged(filter_index)
    \/ IgnorePressed
    \/ DefaultPressed
    \/ \E i \in 1..(Len(Keys) + 1), k \in 0..(MaxReqLines + 2) : ActionChosen(i, k)

SpecDialog == InitDialog /\ [][NextDialog]_vars

----------------------------------------------------------------------------
(* Properties of check_deps (SpecDeps) *)

\* The requirement lines check_deps is to scan: those of each listed plugin
\* that has a requirements.txt, in the order of the list and of the files.
RECURSIVE ScannedLines(_)
ScannedLines(plugin_names) ==
    IF plugin_names = <<>> THEN <<>>
    ELSE LET p == Head(plugin_names)
             f == reqfiles[p]
         IN (IF f.present
             THEN [i \in 1..Len(f.lines) |-> [plugin |-> p, line |-> f.lines[i]]]
             ELSE <<>>) \o ScannedLines(Tail(plugin_names))

\* What the installed distributions say about a requirement line: the first
\* distribution of its project on sys.path decides.
ExpectedError(line) ==
    LET k == ReqKey(line)
        found == {i \in 1..Len(sys_path) : dists[sys_path[i]][k] # 0}
    IN IF found = {} THEN "DistributionNotFound"
       ELSE LET m == CHOOSE i \in found : \A j \in found : i <= j
                v == dists[sys_path[m]][k]
            IN IF \/ line.op = "==" /\ v = line.ver
                  \/ line.op = ">=" /\ v >= line.ver
               THEN "None" ELSE "VersionConflict"

RequiredBy(name) ==
    IF LibIndex(dialog.libs, name) = 0 THEN <<>>
    ELSE dialog.libs[LibIndex(dialog.libs, name)].required_by

RECURSIVE SumLen(_)
SumLen(libs) ==
    IF libs = <<>> THEN 0 ELSE Len(Head(libs).required_by) + SumLen(Tail(libs))

DepsChecked == run.handler = "check_deps"

\* C1: check_deps classifies every requirement exactly once. For every key,
\* the required_by list of the Lib of that key holds one Req per scanned
\* requirement line of that key, in scan order, naming the plugin, the
\* requirement string and the error the installed distributions call for
\* (None, DistributionNotFound or VersionConflict); no other Lib holds a Req,
\* no two Libs share a name, and the number of Req records is the number of
\* lines scanned (plugins without a requirements.txt contribute none).
C1_ClassifiedOnce ==
    DepsChecked =>
        LET scanned == ScannedLines(run.plugin_names)
        IN /\ \A k \in KeySet :
                LET OfKey(x) == ReqKey(x.line) = k
                    mine == SelectSeq(scanned, OfKey)
                IN RequiredBy(k) =
                     [i \in 1..Len(mine) |->
                        Req(mine[i].plugin, ReqStr(mine[i].line),
                            ExpectedError(mine[i].line))]
           /\ \A i \in 1..Len(dialog.libs) :
                /\ dialog.libs[i].name \notin KeySet
                      => dialog.libs[i].required_by = <<>>
                /\ \A j \in 1..Len(dialog.libs) :
                      dialog.libs[i].name = dialog.libs[j].name => i = j
                /\ \A j \in 1..Len(dialog.libs[i].required_by) :
                      dialog.libs[i].required_by[j].error \in
                          {"None", "DistributionNotFound", "VersionConflict"}
           /\ SumLen(dialog.libs) = Len(scanned)

\* A check over two plugins with files and one without, a library required
\* twice, and all three classifications present.
C1_Witness ==
    /\ DepsChecked
    /\ \E p \in Range(run.plugin_names) : ~reqfiles[p].present
    /\ Cardinality({p \in Range(run.plugin_names) : reqfiles[p].present}) = 2
    /\ \E k \in KeySet : Len(RequiredBy(k)) >= 2
    /\ \A e \in {"None", "DistributionNotFound", "VersionConflict"} :
          \E k \in KeySet : \E j \in 1..Len(RequiredBy(k)) : RequiredBy(k)[j].error = e

\* C2: check_deps returns needs_gui = TRUE exactly when some scanned
\* requirement line is missing or conflicting according to the installed
\* distributions, and FALSE when all are met or none was scanned.
C2_NeedsGuiIff ==
    DepsChecked =>
        LET scanned == ScannedLines(run.plugin_names)
        IN run.needs_gui <=>
              \E i \in 1..Len(scanned) : ExpectedError(scanned[i].line) # "None"

\* needs_gui raised by a single conflicting requirement among satisfied ones.
C2_Witness ==
    /\ DepsChecked
    /\ run.needs_gui
    /\ LET scanned == ScannedLines(run.plugin_names)
       IN /\ Len(scanned) >= 2
          /\ Cardinality({i \in 1..Len(scanned) :
                            ExpectedError(scanned[i].line) # "None"}) = 1
          /\ \E i \in 1..Len(scanned) :
                ExpectedError(scanned[i].line) = "VersionConflict"

\* The plugins C3 speaks of: checked, with a non-empty requirements.txt whose
\* lines are all missing, their libraries installed nowhere and required by
\* this plugin only, through that one line.
AllMissingOwnOnly(p) ==
    /\ p \in Range(run.plugin_names)
    /\ reqfiles[p].present
    /\ reqfiles[p].lines # <<>>
    /\ \A i \in 1..Len(reqfiles[p].lines) :
          LET line == reqfiles[p].lines[i]
          IN /\ ExpectedError(line) = "DistributionNotFound"
             /\ \A e \in Entries : dists[e][ReqKey(line)] = 0
             /\ Len(RequiredBy(ReqKey(line))) = 1
             /\ RequiredBy(ReqKey(line))[1].plugin = p

ReqStrings(p) == [i \in 1..Len(reqfiles[p].lines) |-> ReqStr(reqfiles[p].lines[i])]

\* C3 as stated: for such a plugin the fresh dialog's reqs_to_install is the
\* plugin's requirement strings in file order, and reqs_to_uninstall is empty.
C3_AsStated ==
    DepsChecked =>
        \A p \in Plugins :
            AllMissingOwnOnly(p) =>
                /\ reqs_to_install(dialog) = ReqStrings(p)
                /\ reqs_to_uninstall(dialog) = <<>>

\* C3 (amended): for such a plugin the plugin's requirement strings occur in
\* the fresh dialog's reqs_to_install once each and in file order, next to
\* the install candidates of the other checked plugins, and
\* reqs_to_uninstall is empty.
C3_InstallDefaults ==
    DepsChecked =>
        \A p \in Plugins :
            AllMissingOwnOnly(p) =>
                /\ SelectSeqBy(reqs_to_install(dialog), Range(ReqStrings(p)))
                     = ReqStrings(p)
                /\ \A i \in 1..Len(reqs_to_install(dialog)) :
                      \E q \in Range(run.plugin_names) :
                          /\ reqfiles[q].present
                          /\ reqs_to_install(dialog)[i] \in Range(ReqStrings(q))
                /\ reqs_to_uninstall(dialog) = <<>>

\* plugin_a with two missing requirements of its own, checked next to
\* another plugin.
C3_Witness ==
    /\ DepsChecked
    /\ AllMissingOwnOnly("plugin_a")
    /\ Len(reqfiles["plugin_a"].lines) = 2
    /\ "plugin_b" \in Range(run.plugin_names)
    /\ reqs_to_install(dialog) = ReqStrings("plugin_a")

----------------------------------------------------------------------------
(* Properties of the handlers (Spec) *)

\* A plugin with a requirement line the installed distributions do not meet.
Unmet(p) ==
    /\ reqfiles[p].present
    /\ \E i \in 1..Len(reqfiles[p].lines) :
          ExpectedError(reqfiles[p].lines[i]) # "None"

\* The handlers that load packages behind a dependency check.
CheckedLoading ==
    \/ run.handler = "initComplete"
    \/ run.handler = "load" /\ run.branch = "check"

C5_DeferThenInitComplete ==
    /\ (run.handler = "load" /\ ~run.wasVisible /\ run.wasStartup) =>
          /\ run.branch = "defer"
          /\ pc = "return"
          /\ run.loads = <<>> /\ run.starts = <<>>
          /\ run.checks = <<>> /\ run.dialogs = 0
          /\ run.ret = "False"
          /\ defered_packages = Append(run.deferredBefore, run.pkg)
    /\ (run.handler = "initComplete" /\ run.loads # <<>>) =>
          /\ run.checks = <<run.deferredBefore>>
          /\ run.needs_gui => run.dialogs = 1 /\ run.result \in {"accepted", "rejected"}
          /\ run.saved = 1
          /\ pc \in {"start", "return"}
          /\ Head(run.loads) = Head(run.deferredBefore)

\* initComplete has loaded two deferred packages after a dialog.
C5_Witness ==
    /\ run.handler = "initComplete"
    /\ pc = "return"
    /\ run.deferredBefore = <<"plugin_c", "plugin_a">>
    /\ run.loads = run.deferredBefore
    /\ run.dialogs = 1
    /\ run.saved = 1

\* C6: a pip command runs only inside promt_install after the dialog was
\* opened and accepted, with a non-empty list: the uninstall with the
\* dialog's reqs_to_uninstall, the install with its reqs_to_install, the
\* uninstall first, each at most once; a handler whose dialog was rejected
\* or not opened runs no command.
C6_PipOnlyAfterAccept ==
    /\ (pc \in {"run_cmd", "report"} \/ run.cmds # <<>>) =>
          run.dialogs = 1 /\ run.result = "accepted"
    /\ pc \in {"run_cmd", "report"} =>
          /\ proc.reqs # <<>>
          /\ proc.verb \in {"install", "uninstall"}
          /\ proc.verb = "install" => proc.reqs = reqs_to_install(dialog)
          /\ proc.verb = "uninstall" => proc.reqs = reqs_to_uninstall(dialog)
          /\ run.loads = <<>>
    /\ pc \notin {"run_cmd", "report"} => proc = NoProc
    /\ \A i \in 1..Len(run.cmds) : run.cmds[i].reqs # <<>>
    /\ \/ run.cmds = <<>>
       \/ Len(run.cmds) = 1
       \/ /\ Len(run.cmds) = 2
          /\ run.cmds[1].verb = "uninstall"
          /\ run.cmds[2].verb = "install"

\* An accepted dialog with one row set to uninstall and one to install: the
\* uninstall has ended and the install is running.
C6_Witness ==
    /\ pc = "run_cmd"
    /\ proc.verb = "install"
    /\ Len(run.cmds) = 1
    /\ run.cmds[1].verb = "uninstall"
    /\ run.result = "accepted"

\* The install command that has just ended with exit code 0.
InstallSucceeded ==
    /\ pc = "report"
    /\ proc.verb = "install"
    /\ proc.rc = 0

\* C7 as stated, for the projects the directory did not hold before: every
\* install command carries --target prefix_path, the directory exists while
\* the command runs, and a requirement installed successfully is met for the
\* next check, the directory having been put first on sys.path.
C7_AsStated ==
    /\ (pc \in {"run_cmd", "report"} /\ proc.verb = "install") =>
          proc.target = prefix_path /\ dirExists
    /\ InstallSucceeded =>
          \A i \in 1..Len(proc.reqs) :
              ReqKey(ParseReq(proc.reqs[i])) \notin proc.had =>
                  Require(proc.reqs[i]) = "None"

\* C7 (amended): every install command carries --target prefix_path and the
\* directory exists while the command runs; the directory is on sys.path,
\* once, and first unless sys.path named it before construction; after a
\* successful install the directory holds a distribution of each installed
\* project, which meets the requirement if the directory held none of that
\* project before, and which is the one the next check sees if the directory
\* is first on sys.path.
C7_InstallTarget ==
    /\ (pc \in {"run_cmd", "report"} /\ proc.verb = "install") =>
          proc.target = prefix_path /\ dirExists
    /\ \A i \in 1..Len(run.cmds) :
          run.cmds[i].verb = "install" => run.cmds[i].target = prefix_path
    /\ Cardinality({i \in 1..Len(sys_path) : sys_path[i] = prefix_path}) = 1
    /\ \/ Head(sys_path) = prefix_path
       \/ sys_path \in PathsBefore
    /\ InstallSucceeded =>
          \A i \in 1..Len(proc.reqs) :
              LET r == ParseReq(proc.reqs[i])
                  k == ReqKey(r)
              IN /\ dists[prefix_path][k] # 0
                 /\ k \notin proc.had => Satisfies(dists[prefix_path][k], r)
                 /\ Head(sys_path) = prefix_path =>
                       WorkingSetVersion(sys_path, k) = dists[prefix_path][k]
                 /\ (Head(sys_path) = prefix_path /\ k \notin proc.had) =>
                       Require(proc.reqs[i]) = "None"

\* cowsay==4 installed into the empty dependencies directory, which leads
\* sys.path: the requirement is met.
C7_Witness ==
    /\ InstallSucceeded
    /\ proc.reqs = <<ReqStr(Requirement("cowsay", "==", 4))>>
    /\ proc.had = {}
    /\ Head(sys_path) = prefix_path
    /\ dists[prefix_path]["cowsay"] = 4
    /\ ~Unmet("plugin_a")

\* C8 as stated: the report is the failure report exactly when the exit
\* code is not zero, and a command whose progress dialog was cancelled ends
\* in the failure report.
C8_AsStated ==
    pc = "report" =>
        /\ proc.report = "failed" <=> proc.rc # 0
        /\ proc.canceled => proc.report = "failed"

\* C8 (amended): when the loop has ended the process has terminated and one
\* of the two reports is made, the failure report exactly when the exit code
\* is not zero; a process that was killed ends in the failure report, and
\* Abort kills the process unless it ended in the same turn of the loop; the
\* loop does not take another turn once poll() has seen the process
\* terminated.
C8_ReportByExitCode ==
    /\ pc = "report" =>
          /\ proc.state = "exited"
          /\ proc.report \in {"failed", "success"}
          /\ proc.report = "failed" <=> proc.rc # 0
          /\ proc.killed => proc.report = "failed"
          /\ (proc.canceled /\ ~proc.killed) => proc.rc \in {0, 1}
    /\ pc = "run_cmd" =>
          /\ proc.state \in {"running", "dying"}
          /\ proc.report = "none"
          /\ proc.canceled <=> proc.state = "dying"
          /\ proc.killed <=> proc.state = "dying"

\* Abort was pressed while pip ran: the process was killed and the failure
\* report made.
C8_Witness ==
    /\ pc = "report"
    /\ proc.canceled /\ proc.killed
    /\ proc.rc # 0
    /\ proc.report = "failed"

\* C9: no package waits in the deferred list once initComplete has handled
\* initializationCompleted, which the host emits once: every deferred
\* package has been passed to the original loader by then.
C9_AsStated ==
    (signalled /\ pc = "idle") => defered_packages = <<>>

\* C10: when initComplete returns, the deferred list is empty. If it was not
\* empty at entry, check_deps has run once, over the list as it was at
\* entry, the dialog was opened at most once (once if needed), settings were
\* saved once, and the original loader was called once per entry of the
\* deferred list, in the order of the list, the entries appended while the
\* loop ran included, whether the dialog was accepted, rejected or not
\* opened. If it was empty, no check ran, no dialog opened, nothing was
\* loaded and no setting changed.
C10_SinglePass ==
    (run.handler = "initComplete" /\ pc = "return") =>
        /\ defered_packages = <<>>
        /\ IF run.deferredBefore # <<>>
           THEN /\ run.checks = <<run.deferredBefore>>
                /\ run.dialogs = (IF run.needs_gui THEN 1 ELSE 0)
                /\ run.dialogs = 1 <=> run.result \in {"accepted", "rejected"}
                /\ run.saved = 1
                /\ Len(run.loads) >= Len(run.deferredBefore)
                /\ SubSeq(run.loads, 1, Len(run.deferredBefore)) = run.deferredBefore
                /\ run.loads = run.batch
           ELSE /\ run.checks = <<>>
                /\ run.dialogs = 0
                /\ run.saved = 0
                /\ run.loads = <<>>
                /\ run.cmds = <<>>
                /\ settings = run.settingsBefore

\* Two deferred packages, the same package twice, loaded in order after a
\* rejected dialog.
C10_Witness ==
    /\ run.handler = "initComplete"
    /\ pc = "return"
    /\ run.deferredBefore = <<"plugin_a", "plugin_a">>
    /\ run.result = "rejected"
    /\ run.loads = run.deferredBefore
    /\ defered_packages = <<>>

\* The calls of patched_load_plugin whose check is disabled by the settings.
CheckDisabled ==
    /\ run.handler = "load"
    /\ \/ ~run.wasVisible /\ ~run.wasStartup
       \/ run.wasVisible /\ ~run.wasInstall

\* C11: with the check disabled (window hidden and check_on_startup not
\* "yes", or window shown and check_on_install not "yes")
\* patched_load_plugin(p) calls the original loader once, for p, and returns
\* its result; it runs no check, opens no dialog, runs no command, saves no
\* setting and leaves the settings and the deferred list as they were. With
\* nothing stored, check_on_startup reads as disabled and check_on_install
\* as enabled.
C11_PassThrough ==
    /\ CheckDisabled =>
          /\ pc = "return"
          /\ run.branch = "passthrough"
          /\ run.loads = <<run.pkg>>
          /\ Len(run.results) = 1
          /\ run.ret = (IF run.results[1] THEN "True" ELSE "False")
          /\ run.checks = <<>> /\ run.dialogs = 0 /\ run.cmds = <<>>
          /\ run.saved = 0
          /\ run.starts = <<>> /\ run.enabled = <<>>
          /\ settings = run.settingsBefore
          /\ defered_packages = run.deferredBefore
          /\ dialog = NoDialog /\ proc = NoProc
    /\ (run.handler = "load" /\ run.branch = "passthrough") => CheckDisabled
    /\ (run.handler # "none"
          /\ run.settingsBefore = [check_on_startup |-> "unset",
                                   check_on_install |-> "unset"]) =>
          ~run.wasStartup /\ run.wasInstall

\* During startup with nothing stored, the original loader failed for
\* plugin_a and False is returned.
C11_Witness ==
    /\ pc = "return"
    /\ run.handler = "load" /\ run.branch = "passthrough"
    /\ ~run.wasVisible
    /\ run.settingsBefore["check_on_startup"] = "unset"
    /\ run.loads = <<"plugin_a">>
    /\ run.results = <<FALSE>>
    /\ run.ret = "False"

\* C12: entered with the window shown and check_on_install enabled,
\* patched_load_plugin(p) has, when it returns, run check_deps once with p
\* as the additional plugin, opened the dialog exactly if needs_gui, saved
\* the settings once, called the original loader once, for p, after all of
\* these, and returns True exactly if the original loader loaded p.
C12_AsStated ==
    (run.handler = "load" /\ run.wasVisible /\ run.wasInstall) =>
        /\ run.branch = "check"
        /\ run.loads # <<>> =>
              /\ run.checks = <<(<<run.pkg>>)>>
              /\ run.dialogs = (IF run.needs_gui THEN 1 ELSE 0)
              /\ run.saved = 1
              /\ proc = NoProc
        /\ pc = "return" =>
              /\ run.loads = <<run.pkg>>
              /\ Len(run.results) = 1
              /\ run.ret = "True" <=> run.results[1]

\* The entries of names whose flag is set, in order.
RECURSIVE Flagged(_, _)
Flagged(names, flags) ==
    IF names = <<>> THEN <<>>
    ELSE (IF Head(flags) THEN <<Head(names)>> ELSE <<>>)
            \o Flagged(Tail(names), Tail(flags))

\* C13: in start_packages, startPlugin is called for exactly the packages
\* the original loader returned a truthy result for, in that order; the
\* /PythonPlugins/ setting is set and the watchDog entry removed for exactly
\* the packages startPlugin succeeded for; and when start_packages has
\* returned, the original loader has been called for every package of the
\* list, whatever the results for the packages before it.
C13_StartProtocol ==
    CheckedLoading =>
        /\ Len(run.results) = Len(run.loads)
        /\ Len(run.start_results) = Len(run.starts)
        /\ run.starts = Flagged(run.loads, run.results)
        /\ run.enabled = Flagged(run.starts, run.start_results)
        /\ (pc = "return" /\ run.checks # <<>>) =>
              /\ run.loads = run.batch
              /\ run.handler = "load" => run.batch = <<run.pkg>>
              /\ run.handler = "initComplete" =>
                    SubSeq(run.batch, 1, Len(run.deferredBefore)) = run.deferredBefore

\* The first deferred package failed to load, the second loaded and
\* started: only the second was started and enabled.
C13_Witness ==
    /\ pc = "return"
    /\ run.handler = "initComplete"
    /\ run.loads = <<"plugin_a", "plugin_c">>
    /\ run.results = <<FALSE, TRUE>>
    /\ run.starts = <<"plugin_c">>
    /\ run.start_results = <<TRUE>>
    /\ run.enabled = <<"plugin_c">>

----------------------------------------------------------------------------
(* Properties of construction and unload (SpecLife) *)

\* C14 as stated, for an instance constructed where sys.path did not name
\* site_packages_path and PATH did not contain bin_path, so that __init__
\* added to all three: after unload, sys.path, PYTHONPATH and PATH are what
\* they were before construction (an unset PYTHONPATH may be left empty).
C14_AsStated ==
    (/\ pc = "unloaded"
     /\ site_packages_path \notin Range(before.sys_path)
     /\ ~Contains(before.environ.PATH, bin_path)) =>
        /\ sys_path = before.sys_path
        /\ environ.PATH = before.environ.PATH
        /\ environ.PYTHONPATH.value = before.environ.PYTHONPATH.value

\* C15: from the end of __init__ until unload, qgis.utils.loadPlugin is
\* patched_load_plugin and _original_loadPlugin is the function that was
\* installed before construction; after unload, also one that raised,
\* qgis.utils.loadPlugin is that function again; _original_loadPlugin is
\* never patched_load_plugin, and a call of patched_load_plugin runs
\* patched_load_plugin once.
C15_PatchSymmetric ==
    /\ pc = "idle" =>
          /\ loadPlugin = Patched
          /\ original_loadPlugin = before.loadPlugin
    /\ pc = "unloaded" => loadPlugin = before.loadPlugin
    /\ pc = "new" => loadPlugin = before.loadPlugin
    /\ original_loadPlugin # Patched
    /\ before.loadPlugin # Patched
    /\ \A i \in 2..Len(last.called) : last.called[i] # Patched
    /\ (last.called # <<>> /\ Head(last.called) = Patched) =>
          /\ pc = "idle"
          /\ Len(last.called) = 2 => last.called[2] = before.loadPlugin

\* Constructed over another program's loader: a call of the host went
\* through patched_load_plugin to that loader.
C15_Witness ==
    /\ pc = "idle"
    /\ before.loadPlugin = OtherLoader
    /\ last.called = <<Patched, OtherLoader>>

----------------------------------------------------------------------------
(* Properties of the dialog's controls (SpecDialog) *)

\* C16: in every state the filter combo, "ignore all", "default all" and
\* the action combos of the shown rows lead to, every row whose action combo
\* is not at "Do nothing" is shown.
C16_SelectedShown ==
    \A i \in 1..Len(dialog.libs) :
        dialog.index[i] # 0 => ~dialog.hidden[i]

\* Under "Required by plugins", a library no plugin requires is shown
\* because its uninstall is selected, next to a hidden one.
C16_Witness ==
    /\ pc = "dialog"
    /\ dialog.filter_index = 1
    /\ \E i \in 1..Len(dialog.libs) :
          /\ dialog.libs[i].required_by = <<>>
          /\ dialog.index[i] # 0
          /\ ~dialog.hidden[i]
    /\ \E i \in 1..Len(dialog.libs) : dialog.hidden[i]

\* The libraries with exactly one install candidate.
OneCandidate(lib) ==
    /\ lib.qpip
    /\ Len(lib.required_by) = 1
    /\ HasIssue(lib)
    /\ lib.installed_dist.version = 0

\* What _default_all is to leave: the install of its one requirement for a
\* library with exactly one install candidate, "Do nothing" for every
\* other.
DefaultsSet(d) ==
    \A i \in 1..Len(d.libs) :
        LET data == d.items[i][d.index[i] + 1]
        IN /\ OneCandidate(d.libs[i]) <=> data[1] = "install"
           /\ OneCandidate(d.libs[i]) =>
                 data = <<"install", d.libs[i].required_by[1].requirement>>
           /\ ~OneCandidate(d.libs[i]) => data = DoNothing
           /\ data[1] # "uninstall"
           /\ Len(d.libs[i].required_by) >= 2 => d.index[i] = 0

\* C17: when the dialog opens, and whenever "default all" is pressed, a
\* library has an install action selected if and only if it is
\* qpip-managed, required by exactly one Req, that Req's error is not None
\* and no distribution is installed for it; every other library is at "Do
\* nothing", whatever was selected before: no uninstall is preselected, and
\* no library with two requirements, missing or not.
C17_DefaultOnlyCandidate ==
    /\ DefaultsSet(dialog)
    /\ [][DefaultPressed => DefaultsSet(dialog')]_vars

\* Defaults over a library with one missing requirement (preselected), one
\* with two missing requirements and one installed without requirement.
C17_Witness ==
    /\ pc = "dialog"
    /\ DefaultsSet(dialog)
    /\ \E i \in 1..Len(dialog.libs) : dialog.index[i] = 1
    /\ \E i \in 1..Len(dialog.libs) :
          /\ Len(dialog.libs[i].required_by) = 2
          /\ \A j \in 1..2 : dialog.libs[i].required_by[j].error = "DistributionNotFound"
          /\ dialog.index[i] = 0
    /\ \E i \in 1..Len(dialog.libs) :
          /\ dialog.libs[i].installed_dist.version # 0
          /\ dialog.index[i] = 0

====
